---- MODULE Spec2Model ----
(***************************************************************************)
(* Model of the RFID scan loop of the EV charging kiosk                    *)
(* (scripts/rfid_verification.py): the poll / dedup / lookup / log loop of *)
(* main(), scan_and_log() and log_authentication_event().                  *)
(*                                                                         *)
(* Python strings are sequences of one-character strings; None is a value  *)
(* no string is equal to.  Time is counted in ticks of 0.1 s, the          *)
(* shortest sleep of the loop.                                             *)
(***************************************************************************)
EXTENDS Integers, Sequences, FiniteSets, TLC

VARIABLES
    RASPBERRY_PI,       \* module flag, lines 18-21 and 62
    reader,             \* module global, lines 55-62
    users,              \* rows of the remote users table
    logs,               \* rows of the remote authentication_logs table
    now,                \* the wall clock time.time() reads, in ticks
    pc,                 \* position of the single thread of control
    result,             \* main: result of read_rfid_card()
    current_time,       \* main: current_time
    eid,                \* main: eid
    last_scanned_eid,   \* main: last_scanned_eid
    last_scan_time,     \* main: last_scan_time
    data,               \* scan_and_log: response.data of the users query
    log_ret,            \* return value of the last log_authentication_event
    calls,              \* remote calls issued since the current poll started
    cleanups,           \* number of GPIO.cleanup() calls made
    exit,               \* how main() ended
    supabase,           \* supabase_db: the module client, lines 20-28
    last_update         \* supabase_db: the last balance update call made

vars == << RASPBERRY_PI, reader, users, logs, now, pc, result, current_time,
           eid, last_scanned_eid, last_scan_time, data, log_ret, calls,
           cleanups, exit, supabase, last_update >>

----------------------------------------------------------------------------
(* Bounds of the model *)

\* the clock runs from Boot to Boot + Horizon ticks
Horizon == 22
\* a reader poll or a remote call takes 0..MaxLatency ticks
MaxLatency == 1
\* the audit log holds at most MaxLogs rows before polling stops
MaxLogs == 2
\* balance updates are called with amounts -MaxBalance..MaxBalance
MaxBalance == 2

----------------------------------------------------------------------------
(* Program constants *)

TicksPerSecond == 10
scan_cooldown == 2
\* time.sleep(0.1) and time.sleep(0.5), in ticks
PollSleep == 1
ScanSleep == 5

CooldownTicks == scan_cooldown * TicksPerSecond
\* time.time() at start: the epoch (last_scan_time = 0) is long past
Boot == CooldownTicks
MaxTime == Boot + Horizon

None == << "None" >>
Whitespace == { " " }

\* identifiers reader.read() may deliver: the card's number, or (from a
\* reader that yields text) a string, possibly padded
RawIds ==
    { [int |-> TRUE, num |-> 1, str |-> << >>],
      [int |-> TRUE, num |-> 12, str |-> << >>],
      [int |-> TRUE, num |-> 9, str |-> << >>],
      [int |-> FALSE, num |-> 0, str |-> << "1", " " >>] }
\* text blocks the reader hardware may deliver
RawTexts == { << "t", " " >> }

\* the users table: two cards are registered; card "1" has two rows,
\* the user of card "12" has an empty name
\* the stored balance of the second row is negative: create_user and
\* update_user write the balance they are given
InitUsers ==
    << [id |-> << "u1" >>, name |-> << "A" >>, eid |-> << "1" >>,
        current_balance |-> 5],
       [id |-> << "u2" >>, name |-> << >>,     eid |-> << "1", "2" >>,
        current_balance |-> -1],
       [id |-> << "u3" >>, name |-> << "B" >>, eid |-> << "1" >>,
        current_balance |-> 7] >>

----------------------------------------------------------------------------
(* Pure helpers *)

RECURSIVE LStrip(_)
LStrip(s) ==
    IF s # << >> /\ Head(s) \in Whitespace THEN LStrip(Tail(s)) ELSE s

RECURSIVE RStrip(_)
RStrip(s) ==
    IF s # << >> /\ s[Len(s)] \in Whitespace
    THEN RStrip(SubSeq(s, 1, Len(s) - 1))
    ELSE s

Digit(d) == << "0", "1", "2", "3", "4", "5", "6", "7", "8", "9" >>[d + 1]

\* decimal digits of a natural number
RECURSIVE Digits(_)
Digits(n) == IF n < 10 THEN << Digit(n) >> ELSE Digits(n \div 10) \o << Digit(n % 10) >>

\* str(x): a number is formatted in decimal, a string is itself
Str(x) == IF x.int THEN Digits(x.num) ELSE x.str

\* str.strip()
Strip(s) == RStrip(LStrip(s))

\* Python truthiness of an optional string
Truthy(v) == v # None /\ v # << >>

\* substring test
Contains(s, sub) ==
    \E i \in 1..(Len(s) - Len(sub) + 1) : SubSeq(s, i, i + Len(sub) - 1) = sub

\* .select("*").eq("eid", e): the matching rows, in table order
RECURSIVE Select(_, _)
Select(tbl, e) ==
    IF tbl = << >> THEN << >>
    ELSE IF Head(tbl).eid = e
         THEN << Head(tbl) >> \o Select(Tail(tbl), e)
         ELSE Select(Tail(tbl), e)

\* lines 164-165: the tuple read_rfid_card returns for a card
CardTuple(id, text) ==
    << Str(id), IF text # << >> THEN Strip(text) ELSE << >> >>

\* the duplicate test with the cooldown read in ticks, not seconds
IsDuplicate_ShortWindow(e, t, last_e, last_t) ==
    e = last_e /\ (t - last_t) < scan_cooldown

\* the duplicate test without the comparison of the identifiers
IsDuplicate_AnyCard(e, t, last_e, last_t) ==
    (t - last_t) < CooldownTicks

\* the duplicate test of a cooldown that remembers every card it logged
IsDuplicate_AnyLogged(e, t, last_e, last_t) ==
    /\ (t - last_t) < CooldownTicks
    /\ (e = last_e \/ \E i \in DOMAIN logs : logs[i].eid = e)

\* the duplicate test with the boundary on the wrong side
IsDuplicate_Inclusive(e, t, last_e, last_t) ==
    e = last_e /\ (t - last_t) <= CooldownTicks

\* lines 195-196: the duplicate test of the scan loop
IsDuplicate(e, t, last_e, last_t) ==
    e = last_e /\ (t - last_t) < CooldownTicks

\* line 135 and line 144: the messages of the two events
LoginMessage(name) == << "User " >> \o name \o << " scanned successfully" >>

\* the failure message without the identifier
FailedMessage_NoEid(e) == << "No user found" >>

FailedMessage(e) == << "No user found with EID: " >> \o e

\* lines 88-98: the row log_authentication_event inserts
LogData(e, event_type, success, user_id, user_name, message) ==
    LET base == [eid |-> e, event_type |-> event_type,
                 success |-> success, message |-> message]
        withId == IF Truthy(user_id)
                  THEN base @@ [user_id |-> user_id] ELSE base
    IN  IF Truthy(user_name)
        THEN withId @@ [user_name |-> user_name] ELSE withId

\* an insert that replaces the rows of the same card
InsertRow_Upsert(tbl, row) ==
    IF \E i \in DOMAIN tbl : tbl[i].eid = row.eid
    THEN [i \in DOMAIN tbl |-> IF tbl[i].eid = row.eid THEN row ELSE tbl[i]]
    ELSE Append(tbl, row)

\* line 100: .insert(log_data) adds one row to the table
InsertRow(tbl, row) == Append(tbl, row)

\* one remote call, as the remote end sees it
Call(op, arg, outcome) == [op |-> op, arg |-> arg, outcome |-> outcome]

----------------------------------------------------------------------------
(* Initial state: module import done, main() about to enter its loop *)

\* no balance update has been called
NoUpdate ==
    [fn |-> "none", key |-> << >>, new_balance |-> [float |-> TRUE, val |-> 0],
     outcome |-> "none", ret |-> "None"]

Init ==
    /\ \/ RASPBERRY_PI = TRUE /\ reader = "SimpleMFRC522"
       \/ RASPBERRY_PI = FALSE /\ reader = "None"
    /\ users = InitUsers
    /\ logs = << >>
    /\ now = Boot
    /\ pc = "read"
    /\ result = None
    /\ current_time = 0
    /\ eid = None
    /\ last_scanned_eid = None
    /\ last_scan_time = 0
    /\ data = << >>
    /\ log_ret = "None"
    /\ calls = << >>
    /\ cleanups = 0
    /\ exit = "running"
    /\ supabase = "Client"
    /\ last_update = NoUpdate

\* time passing while a blocking call is in progress
Elapse(d) == now' \in { t \in now..(now + d) : t <= MaxTime }

----------------------------------------------------------------------------
(* main(), lines 181-205 *)

\* outcomes of reader.read(): a card, or an error (no card, bad read)
ReaderOutcomes == { "card", "raise" }

\* an error of reader.read() that leaves read_rfid_card
AfterRead_Propagates(outcome) == IF outcome = "raise" THEN "except" ELSE "time"

\* lines 162-168: where control goes after reader.read(); its error is
\* caught and None is returned to line 183
AfterRead(outcome) == "time"

\* lines 183 and 150-168: read_rfid_card()
ReadRfidCard ==
    /\ pc = "read"
    /\ Len(logs) < MaxLogs
    /\ IF ~RASPBERRY_PI \/ reader = "None"
       THEN result' = None /\ pc' = "time" /\ UNCHANGED now
       ELSE /\ \E outcome \in ReaderOutcomes :
                 /\ IF outcome = "card"
                    THEN \E id \in RawIds, text \in RawTexts :
                            result' = CardTuple(id, text)
                    ELSE result' = None
                 /\ pc' = AfterRead(outcome)
            /\ Elapse(MaxLatency)
    /\ calls' = << >>
    /\ UNCHANGED << supabase, last_update,
                    RASPBERRY_PI, reader, users, logs, current_time, eid,
                    last_scanned_eid, last_scan_time, data, log_ret,
                    cleanups, exit >>

\* lines 185-192: take the time, leave on an empty read, trim the id
TakeTime ==
    /\ pc = "time"
    /\ current_time' = now
    /\ IF result = None
       THEN pc' = "sleep_empty" /\ UNCHANGED eid
       ELSE pc' = "dedup" /\ eid' = Strip(result[1])
    /\ UNCHANGED << supabase, last_update,
                    RASPBERRY_PI, reader, users, logs, now, result,
                    last_scanned_eid, last_scan_time, data, log_ret, calls,
                    cleanups, exit >>

\* a time.sleep(d) that ends at label next
Sleep(at, d, next) ==
    /\ pc = at
    /\ now + d <= MaxTime
    /\ now' = now + d
    /\ pc' = next
    /\ UNCHANGED << supabase, last_update,
                    RASPBERRY_PI, reader, users, logs, result, current_time,
                    eid, last_scanned_eid, last_scan_time, data, log_ret,
                    calls, cleanups, exit >>

\* lines 188-189
SleepEmpty == Sleep("sleep_empty", PollSleep, "read")

\* the duplicate test followed at once by the update of lines 202-203
Dedup_UpdatesFirst ==
    /\ pc = "dedup"
    /\ IF IsDuplicate(eid, current_time, last_scanned_eid, last_scan_time)
       THEN pc' = "sleep_dup" /\ UNCHANGED << last_scanned_eid, last_scan_time >>
       ELSE /\ pc' = "query"
            /\ last_scanned_eid' = eid
            /\ last_scan_time' = current_time
    /\ UNCHANGED << supabase, last_update,
                    RASPBERRY_PI, reader, users, logs, now, result,
                    current_time, eid, data, log_ret, calls, cleanups, exit >>

\* lines 195-198: prevent duplicate scans within the cooldown period
Dedup ==
    /\ pc = "dedup"
    /\ IF IsDuplicate(eid, current_time, last_scanned_eid, last_scan_time)
       THEN pc' = "sleep_dup"
       ELSE pc' = "query"
    /\ UNCHANGED << supabase, last_update,
                    RASPBERRY_PI, reader, users, logs, now, result,
                    current_time, eid, last_scanned_eid, last_scan_time,
                    data, log_ret, calls, cleanups, exit >>

\* lines 197-198
SleepDuplicate == Sleep("sleep_dup", PollSleep, "read")

----------------------------------------------------------------------------
(* scan_and_log(eid), lines 118-148 *)

\* outcomes of a remote call, of a print and of a hardware call; execute()
\* is called without a timeout, so a call the remote end never answers
\* does not return ("hang")
QueryOutcomes == { "ok", "raise", "hang" }
InsertOutcomes == { "ok", "nodata", "raise", "hang" }
PrintOutcomes == { "ok", "raise" }

\* the users query sent without waiting for its answer
Query_FireAndForget ==
    /\ pc = "query"
    /\ \E outcome \in QueryOutcomes :
          calls' = Append(calls, Call("select", eid, outcome))
    /\ pc' = "read"
    /\ UNCHANGED << supabase, last_update,
                    RASPBERRY_PI, reader, users, logs, now, result,
                    current_time, eid, last_scanned_eid, last_scan_time,
                    data, log_ret, cleanups, exit >>

\* lines 120-122: query the users table, branch on response.data
Query ==
    /\ pc = "query"
    /\ \E outcome \in QueryOutcomes :
          /\ calls' = Append(calls, Call("select", eid, outcome))
          /\ IF outcome = "ok"
             THEN /\ data' = Select(users, eid)
                  /\ pc' = IF Len(data') > 0 THEN "print_scanned"
                                             ELSE "print_no_user"
             ELSE /\ data' = data
                  /\ pc' = IF outcome = "raise" THEN "print_failed" ELSE "hung"
    /\ Elapse(MaxLatency)
    /\ UNCHANGED << supabase, last_update,
                    RASPBERRY_PI, reader, users, logs, result, current_time,
                    eid, last_scanned_eid, last_scan_time, log_ret,
                    cleanups, exit >>

\* a print inside the try block of scan_and_log: an error it raises is
\* caught at line 147
PrintInTry(at, next) ==
    /\ pc = at
    /\ \E outcome \in PrintOutcomes :
          pc' = IF outcome = "ok" THEN next ELSE "print_failed"
    /\ UNCHANGED << supabase, last_update,
                    RASPBERRY_PI, reader, users, logs, now, result,
                    current_time, eid, last_scanned_eid, last_scan_time,
                    data, log_ret, calls, cleanups, exit >>

\* line 128
PrintScanned == PrintInTry("print_scanned", "log_login")

\* line 138
PrintNoUser == PrintInTry("print_no_user", "log_failed")

\* a return value that tests the response, not response.data
InsertReturn_AnyResponse(outcome) == outcome # "raise"

\* lines 102-108: what log_authentication_event returns
InsertReturn(outcome) == outcome = "ok"

\* log_authentication_event repeating a failed insert
LogAuthenticationEvent_Retries(at, log_data) ==
    /\ pc = at
    /\ \E outcome \in InsertOutcomes :
          /\ calls' = Append(calls, Call("insert", log_data, outcome))
          /\ logs' = IF outcome = "ok" THEN InsertRow(logs, log_data) ELSE logs
          /\ IF outcome = "hang"
             THEN pc' = "hung" /\ UNCHANGED << log_ret, data >>
             ELSE /\ log_ret' = IF InsertReturn(outcome) THEN "True" ELSE "False"
                  /\ pc' = IF outcome = "ok" THEN "update" ELSE at
                  /\ data' = IF outcome = "ok" THEN << >> ELSE data
    /\ Elapse(MaxLatency)
    /\ UNCHANGED << supabase, last_update,
                    RASPBERRY_PI, reader, users, result, current_time, eid,
                    last_scanned_eid, last_scan_time, cleanups, exit >>

\* lines 87-108: log_authentication_event, called from label at; it
\* returns to scan_and_log, which returns to main (line 202)
LogAuthenticationEvent(at, log_data) ==
    /\ pc = at
    /\ \E outcome \in InsertOutcomes :
          /\ calls' = Append(calls, Call("insert", log_data, outcome))
          /\ logs' = IF outcome = "ok" THEN InsertRow(logs, log_data) ELSE logs
          /\ IF outcome = "hang"
             THEN pc' = "hung" /\ UNCHANGED << log_ret, data >>
             ELSE /\ log_ret' = IF InsertReturn(outcome) THEN "True" ELSE "False"
                  /\ data' = << >>
                  /\ pc' = "update"
    /\ Elapse(MaxLatency)
    /\ UNCHANGED << supabase, last_update,
                    RASPBERRY_PI, reader, users, result, current_time, eid,
                    last_scanned_eid, last_scan_time, cleanups, exit >>

\* the last matching row instead of the first
FirstUser_Last(rows) == rows[Len(rows)]

\* line 123: user = response.data[0]
FirstUser(rows) == rows[1]

\* lines 123-136: log the successful scan of the first matching user
LogLogin ==
    LET user == FirstUser(data)
        user_id == user.id
        user_name == user.name
    IN  LogAuthenticationEvent("log_login",
            LogData(eid, "login", TRUE, user_id, user_name,
                    LoginMessage(user_name)))

\* lines 140-145: log the failed scan
LogFailed ==
    LogAuthenticationEvent("log_failed",
        LogData(eid, "failed", FALSE, None, None, FailedMessage(eid)))

\* lines 147-148: the handler of scan_and_log; an error its own print
\* raises leaves scan_and_log and reaches line 209
PrintFailed ==
    /\ pc = "print_failed"
    /\ \E outcome \in PrintOutcomes :
          pc' = IF outcome = "ok" THEN "update" ELSE "except"
    /\ data' = << >>
    /\ UNCHANGED << supabase, last_update,
                    RASPBERRY_PI, reader, users, logs, now, result,
                    current_time, eid, last_scanned_eid, last_scan_time,
                    log_ret, calls, cleanups, exit >>

----------------------------------------------------------------------------
(* main(), lines 202-218 *)

\* the update made only for a scan whose event was recorded
UpdateScanState_OnlyIfLogged ==
    /\ pc = "update"
    /\ IF log_ret = "True" /\ Len(calls) = 2
       THEN last_scanned_eid' = eid /\ last_scan_time' = current_time
       ELSE UNCHANGED << last_scanned_eid, last_scan_time >>
    /\ pc' = "sleep_scan"
    /\ UNCHANGED << supabase, last_update,
                    RASPBERRY_PI, reader, users, logs, now, result,
                    current_time, eid, data, log_ret, calls, cleanups, exit >>

\* lines 202-203
UpdateScanState ==
    /\ pc = "update"
    /\ last_scanned_eid' = eid
    /\ last_scan_time' = current_time
    /\ pc' = "sleep_scan"
    /\ UNCHANGED << supabase, last_update,
                    RASPBERRY_PI, reader, users, logs, now, result,
                    current_time, eid, data, log_ret, calls, cleanups, exit >>

\* line 205
SleepScan == Sleep("sleep_scan", ScanSleep, "read")

\* the labels inside the while loop of main
LoopPcs == { "read", "time", "sleep_empty", "dedup", "sleep_dup", "query",
             "print_scanned", "print_no_user", "log_login", "log_failed",
             "print_failed", "hung", "update", "sleep_scan" }

\* the labels inside scan_and_log
ScanPcs == { "query", "print_scanned", "print_no_user", "log_login",
             "log_failed", "print_failed", "hung" }

\* Ctrl+C: KeyboardInterrupt is raised wherever the loop is; it is no
\* Exception, so lines 107, 147 and 166 let it through to line 207
KeyboardInterrupt ==
    /\ pc \in LoopPcs
    /\ pc' = "interrupted"
    /\ data' = << >>
    /\ UNCHANGED << supabase, last_update,
                    RASPBERRY_PI, reader, users, logs, now, result,
                    current_time, eid, last_scanned_eid, last_scan_time,
                    log_ret, calls, cleanups, exit >>

\* a handler of main's try: its print may raise, which the finally
\* block lets through after it has run
Handler(at) ==
    /\ pc = at
    /\ \E outcome \in PrintOutcomes :
          exit' = IF outcome = "ok" THEN "return" ELSE "raise"
    /\ pc' = "finally"
    /\ UNCHANGED << supabase, last_update,
                    RASPBERRY_PI, reader, users, logs, now, result,
                    current_time, eid, last_scanned_eid, last_scan_time,
                    data, log_ret, calls, cleanups >>

\* lines 207-208: except KeyboardInterrupt
ShuttingDown == Handler("interrupted")

\* lines 209-212: except Exception
ErrorHandler == Handler("except")

\* outcomes of GPIO.cleanup()
CleanupOutcomes == { "ok", "raise" }

\* an error of the cleanup that leaves main
AfterCleanup_Propagates(outcome, e) == IF outcome = "raise" THEN "raise" ELSE e

\* lines 215-218: how main ends after the cleanup; its error is swallowed
AfterCleanup(outcome, e) == e

\* lines 213-218: GPIO.cleanup() on a Raspberry Pi, its error swallowed
Finally ==
    /\ pc = "finally"
    /\ IF RASPBERRY_PI
       THEN \E outcome \in CleanupOutcomes :
               /\ cleanups' = cleanups + 1
               /\ exit' = AfterCleanup(outcome, exit)
       ELSE UNCHANGED << cleanups, exit >>
    /\ pc' = "done"
    /\ UNCHANGED << supabase, last_update,
                    RASPBERRY_PI, reader, users, logs, now, result,
                    current_time, eid, last_scanned_eid, last_scan_time,
                    data, log_ret, calls >>

----------------------------------------------------------------------------

Next ==
    \/ ReadRfidCard
    \/ TakeTime
    \/ SleepEmpty
    \/ Dedup
    \/ SleepDuplicate
    \/ Query
    \/ PrintScanned
    \/ PrintNoUser
    \/ LogLogin
    \/ LogFailed
    \/ PrintFailed
    \/ UpdateScanState
    \/ SleepScan
    \/ KeyboardInterrupt
    \/ ShuttingDown
    \/ ErrorHandler
    \/ Finally

Spec == Init /\ [][Next]_vars

-----------------------------------------------------------------------------
(* supabase_db: the two balance updates, called in any order *)

\* the amounts a caller passes: numbers, and a value float() rejects
NewBalances ==
    [float : {TRUE}, val : (-MaxBalance)..MaxBalance]
        \cup { [float |-> FALSE, val |-> 0] }

\* the card identifiers a caller passes to update_user_balance
UpdateEids == RawIds

\* the row identifiers a caller passes to update_user_balance_by_id
UpdateIds ==
    { [int |-> FALSE, num |-> 0, str |-> << "u1" >>],
      [int |-> FALSE, num |-> 0, str |-> << "u2" >>],
      [int |-> FALSE, num |-> 0, str |-> << "u2", " " >>],
      [int |-> TRUE, num |-> 9, str |-> << >>] }

\* the remote update answers, or raises
UpdateOutcomes == { "ok", "raise" }

\* the amount stored as it was given
Clamp_PassThrough(nb) == nb

\* lines 94 and 110: max(0.0, float(new_balance))
Clamp(nb) == IF nb < 0 THEN 0 ELSE nb

\* .update({"current_balance": b}).eq(col, key): the table afterwards
UpdateRows(tbl, col, key, b) ==
    [i \in DOMAIN tbl |->
        IF tbl[i][col] = key THEN [tbl[i] EXCEPT !.current_balance = b]
        ELSE tbl[i]]

\* the rows the update returns in response.data
UpdatedRows(tbl, col, key) ==
    { i \in DOMAIN tbl : tbl[i][col] = key }

\* the body the two functions share: lines 91-102 and 107-118
BalanceUpdate(fn, col, key, new_balance) ==
    IF supabase = "None"
    THEN /\ last_update' = [fn |-> fn, key |-> key,
                            new_balance |-> new_balance,
                            outcome |-> "none", ret |-> "False"]
         /\ UNCHANGED users
    ELSE IF ~new_balance.float
    THEN /\ last_update' = [fn |-> fn, key |-> key,
                            new_balance |-> new_balance,
                            outcome |-> "none", ret |-> "False"]
         /\ UNCHANGED users
    ELSE \E outcome \in UpdateOutcomes :
         /\ users' = IF outcome = "ok"
                     THEN UpdateRows(users, col, key, Clamp(new_balance.val))
                     ELSE users
         /\ last_update' =
                [fn |-> fn, key |-> key, new_balance |-> new_balance,
                 outcome |-> outcome,
                 ret |-> IF outcome = "ok"
                            /\ Cardinality(UpdatedRows(users, col, key)) > 0
                         THEN "True" ELSE "False"]

\* lines 89-102
UpdateUserBalance ==
    /\ \E e \in UpdateEids, new_balance \in NewBalances :
          BalanceUpdate("update_user_balance", "eid", Strip(Str(e)),
                        new_balance)
    /\ UNCHANGED << supabase, RASPBERRY_PI, reader, logs, now, pc, result,
                    current_time, eid, last_scanned_eid, last_scan_time,
                    data, log_ret, calls, cleanups, exit >>

\* lines 105-118
UpdateUserBalanceById ==
    /\ \E user_id \in UpdateIds, new_balance \in NewBalances :
          BalanceUpdate("update_user_balance_by_id", "id", Str(user_id),
                        new_balance)
    /\ UNCHANGED << supabase, RASPBERRY_PI, reader, logs, now, pc, result,
                    current_time, eid, last_scanned_eid, last_scan_time,
                    data, log_ret, calls, cleanups, exit >>

\* module import done, with or without credentials; the scan loop of the
\* other script is not running
InitDb ==
    /\ supabase \in { "Client", "None" }
    /\ last_update = NoUpdate
    /\ users = InitUsers
    /\ logs = << >>
    /\ RASPBERRY_PI = FALSE
    /\ reader = "None"
    /\ now = Boot
    /\ pc = "read"
    /\ result = None
    /\ current_time = 0
    /\ eid = None
    /\ last_scanned_eid = None
    /\ last_scan_time = 0
    /\ data = << >>
    /\ log_ret = "None"
    /\ calls = << >>
    /\ cleanups = 0
    /\ exit = "running"

NextDb ==
    \/ UpdateUserBalance
    \/ UpdateUserBalanceById

SpecDb == InitDb /\ [][NextDb]_vars

----------------------------------------------------------------------------
(* Vocabulary of the properties *)

\* the positions of the insert calls of the current iteration
InsertIdx == { i \in DOMAIN calls : calls[i].op = "insert" }

\* the users query of the current iteration was issued and answered
QueryAnswered == Len(calls) > 0 /\ calls[1].op = "select" /\ calls[1].outcome = "ok"

\* the users query of the current iteration was issued and raised
QueryRaised == Len(calls) > 0 /\ calls[1].op = "select" /\ calls[1].outcome = "raise"

\* the last remote call of the current iteration is an insert that failed
InsertFailed ==
    /\ Len(calls) > 0
    /\ calls[Len(calls)].op = "insert"
    /\ calls[Len(calls)].outcome \in { "nodata", "raise" }

\* the read of the current iteration repeats the last accepted identifier
\* inside the cooldown
InsideCooldown ==
    eid = last_scanned_eid /\ (current_time - last_scan_time) < CooldownTicks

\* the labels after main's loop
ExitPcs == { "interrupted", "except", "finally", "done" }

----------------------------------------------------------------------------
(* Properties *)

\* C1: dedup invariant.  While a read is being resolved (scan_and_log is
\* running or has just returned), it is not a repeat of the last accepted
\* identifier inside the cooldown: between two consecutive accepted reads
\* of one trimmed identifier at least the cooldown has passed.  And a read
\* that was discarded by the duplicate test is a repeat inside the
\* cooldown for which no users query and no log insert has been issued.
C1_DedupInvariant ==
    /\ pc \in ScanPcs \cup { "update" } => ~InsideCooldown
    /\ pc = "sleep_dup" => InsideCooldown /\ calls = << >> /\ eid = Strip(result[1])

\* a padded read of the last accepted identifier is discarded inside the
\* cooldown, after that identifier has been looked up and logged once
C1_Witness ==
    /\ pc = "sleep_dup"
    /\ result[1] # eid
    /\ eid = last_scanned_eid
    /\ current_time - last_scan_time < CooldownTicks
    /\ Len(logs) = 1

\* C2 (as claimed): when scan_and_log has returned, exactly one
\* authentication event has been issued for the scan, a login event with
\* success = true or a failed event with success = false.
C2_ExactlyOneEvent ==
    pc = "update" =>
        /\ Cardinality(InsertIdx) = 1
        /\ \A i \in InsertIdx :
              \/ calls[i].arg.event_type = "login" /\ calls[i].arg.success
              \/ calls[i].arg.event_type = "failed" /\ ~calls[i].arg.success

\* C3 (as claimed): when the users query of an accepted read raised and
\* scan_and_log has returned, a failed event with success = false has
\* been issued for the read.
C3_LookupFailureLogged ==
    (pc = "update" /\ QueryRaised) =>
        \E i \in InsertIdx :
            /\ calls[i].arg.event_type = "failed"
            /\ ~calls[i].arg.success
            /\ calls[i].arg.eid = eid

C5_OnlyInterruptEndsLoop ==
    pc \notin LoopPcs \cup { "finally", "done" } => pc = "interrupted"

\* C6: a failed insert does not block.  When the insert of a scan raised
\* or returned no data, log_authentication_event has returned False to
\* scan_and_log (the handler of line 147 is not entered), the insert has
\* been issued once, the scan state is then updated with the read, and the
\* loop polls again after the 0.5 s sleep.
C6_LogFailureNonBlocking ==
    /\ [](InsertFailed =>
            /\ log_ret = "False"
            /\ pc \in { "update", "sleep_scan", "read",
                        "interrupted", "finally", "done" }
            /\ Cardinality(InsertIdx) = 1
            /\ pc = "sleep_scan" =>
                  last_scanned_eid = eid /\ last_scan_time = current_time)
    /\ [][ (InsertFailed /\ pc' # "interrupted") =>
             /\ pc = "update" => pc' = "sleep_scan"
             /\ pc = "sleep_scan" =>
                   pc' = "read" /\ now' = now + ScanSleep /\ logs' = logs ]_vars

\* the insert raised, and the loop has reached its sleep with the scan
\* state updated and nothing in the audit log
C6_Witness ==
    /\ pc = "sleep_scan"
    /\ InsertFailed
    /\ calls[Len(calls)].outcome = "raise"
    /\ last_scanned_eid = eid
    /\ logs = << >>

\* C7: a read whose trimmed identifier differs from the last accepted one
\* is never discarded: the duplicate test sends it to scan_and_log
\* whatever the time since the last acceptance.
C7_DifferentCardAccepted ==
    /\ [](pc = "sleep_dup" => eid = last_scanned_eid)
    /\ [][ (pc = "dedup" /\ eid # last_scanned_eid /\ pc' # "interrupted")
             => pc' = "query" ]_vars

\* two different cards have been logged, the second one read inside the
\* cooldown of the first
C7_Witness ==
    /\ pc = "update"
    /\ last_scanned_eid # None
    /\ eid # last_scanned_eid
    /\ current_time - last_scan_time < CooldownTicks
    /\ Len(logs) = 2
    /\ logs[1].eid = last_scanned_eid
    /\ logs[2].eid = eid

\* C8: a repeat of the last accepted identifier is sent to scan_and_log
\* whenever the time since the last acceptance is at least the cooldown,
\* the boundary included; it is discarded only below the cooldown.
C8_CooldownExpiry ==
    /\ [](pc = "sleep_dup" => (current_time - last_scan_time) < CooldownTicks)
    /\ [][ (/\ pc = "dedup"
             /\ eid = last_scanned_eid
             /\ (current_time - last_scan_time) >= CooldownTicks
             /\ pc' # "interrupted")
             => pc' = "query" ]_vars

\* the same card has been logged a second time, read exactly one cooldown
\* after its first acceptance
C8_Witness ==
    /\ pc = "update"
    /\ eid = last_scanned_eid
    /\ current_time - last_scan_time = CooldownTicks
    /\ Len(logs) = 2
    /\ logs[1].eid = eid
    /\ logs[2].eid = eid

\* the rows of the users table that carry the identifier of the read
Matching == Select(users, eid)

\* C9 (as claimed): every event issued for a read whose users query
\* returned rows is a login event with success = true for the scanned
\* identifier that carries the id and the name of the first row.
C9_LoginEventCarriesUser ==
    (QueryAnswered /\ Len(Matching) > 0) =>
        \A i \in InsertIdx :
            LET e == calls[i].arg IN
            /\ e.event_type = "login"
            /\ e.success
            /\ e.eid = eid
            /\ "user_id" \in DOMAIN e /\ e.user_id = Matching[1].id
            /\ "user_name" \in DOMAIN e /\ e.user_name = Matching[1].name

\* C9 (amended): every event issued for a read whose users query returned
\* rows is a login event with success = true for the scanned identifier;
\* it carries the id of the first row when that id is not empty and the
\* name of the first row when that name is not empty, and has no such
\* field otherwise; no failed event and no second event is issued.
C9_LoginEventCarriesNonEmptyUser ==
    (QueryAnswered /\ Len(Matching) > 0) =>
        /\ Cardinality(InsertIdx) <= 1
        /\ \A i \in InsertIdx :
              LET e == calls[i].arg
                  first == Matching[1]
              IN
              /\ e.event_type = "login"
              /\ e.success
              /\ e.eid = eid
              /\ e.message = LoginMessage(first.name)
              /\ IF first.id # << >>
                 THEN "user_id" \in DOMAIN e /\ e.user_id = first.id
                 ELSE "user_id" \notin DOMAIN e
              /\ IF first.name # << >>
                 THEN "user_name" \in DOMAIN e /\ e.user_name = first.name
                 ELSE "user_name" \notin DOMAIN e

\* the login event of the card whose user has an empty name is in the
\* audit log, without a user name
C9_Witness ==
    /\ pc = "update"
    /\ QueryAnswered
    /\ Len(Matching) > 0
    /\ Matching[1].name = << >>
    /\ \E i \in InsertIdx : calls[i].outcome = "ok"
    /\ Len(logs) > 0
    /\ logs[Len(logs)].event_type = "login"
    /\ "user_name" \notin DOMAIN logs[Len(logs)]

\* C10: every event issued for a read whose users query returned no row
\* is a failed event with success = false for the scanned identifier,
\* without user id and user name, whose message contains the identifier;
\* no second event is issued.
C10_FailedEventContent ==
    (QueryAnswered /\ Len(Matching) = 0) =>
        /\ Cardinality(InsertIdx) <= 1
        /\ \A i \in InsertIdx :
              LET e == calls[i].arg IN
              /\ e.event_type = "failed"
              /\ ~e.success
              /\ e.eid = eid
              /\ DOMAIN e = { "eid", "event_type", "success", "message" }
              /\ Contains(e.message, eid)

\* the failed event of an unknown card is in the audit log
C10_Witness ==
    /\ pc = "update"
    /\ QueryAnswered
    /\ Len(Matching) = 0
    /\ \E i \in InsertIdx : calls[i].outcome = "ok"
    /\ Len(logs) > 0
    /\ logs[Len(logs)].event_type = "failed"
    /\ logs[Len(logs)].eid = eid

\* C11 (as claimed): while the users query or the insert of an accepted
\* read is pending, the reader can be polled, so that another card can be
\* accepted without waiting for the call to finish.
C11_PollDuringCall ==
    pc \in ScanPcs => ENABLED ReadRfidCard

\* C11 (amended): a remote call blocks the loop.  The reader is polled
\* only at the head of the loop, and after an accepted read the head is
\* reached again only when scan_and_log has returned, the scan state has
\* been updated with that read and the 0.5 s sleep is over; a different
\* card presented meanwhile is accepted by that later poll.
C11_CallBlocksPoll ==
    /\ [](pc \in ScanPcs => ~ENABLED ReadRfidCard)
    /\ []((pc = "read" /\ calls # << >>) =>
            /\ last_scanned_eid = eid
            /\ last_scan_time = current_time
            /\ now >= current_time + ScanSleep)
    /\ [][ (result' # result \/ pc' = "time") => pc = "read" ]_vars

\* a second, different card is accepted by a poll that came after the
\* stalled call of the first card and the sleep
C11_Witness ==
    /\ pc = "query"
    /\ last_scanned_eid # None
    /\ last_scanned_eid # eid
    /\ current_time > last_scan_time + ScanSleep

\* the users query of the current read has been answered and the insert
\* of its event is still to come
AppendPending ==
    /\ QueryAnswered
    /\ pc \in { "print_scanned", "print_no_user", "log_login", "log_failed" }

\* C12 (as claimed): the interrupt does not take effect inside an
\* iteration: once the users query of an accepted read has been issued,
\* the loop is not left before the event of that read has been appended.
C12_InterruptAtBoundary ==
    [][ pc' = "interrupted" => ~AppendPending ]_vars

\* C13 (as claimed): whenever main has ended, the hardware cleanup has
\* been executed exactly once.
C13_CleanupOnce ==
    pc = "done" => cleanups = 1

\* C13 (amended): whenever main has ended, GPIO.cleanup() has been
\* executed exactly once if RASPBERRY_PI is true and not at all if it is
\* false; it is not executed before the finally block; an error of the
\* cleanup does not change how main ends; and after the finally block
\* nothing is done: no poll, no remote call.
C13_CleanupWhenHardware ==
    /\ [](pc = "done" => cleanups = IF RASPBERRY_PI THEN 1 ELSE 0)
    /\ [](pc # "done" => cleanups = 0)
    /\ [][ pc = "finally" => pc' = "done" /\ exit' = exit ]_vars
    /\ [][ pc # "done" ]_vars

\* main has returned after a fault that escaped the loop, with the
\* cleanup done once
C13_Witness ==
    /\ pc = "done"
    /\ RASPBERRY_PI
    /\ cleanups = 1
    /\ exit = "return"
    /\ QueryRaised

\* the reader was not available when the module was loaded
ReaderUnavailable == ~RASPBERRY_PI \/ reader = "None"

\* C14: the reader never faults into the loop.  A call of read_rfid_card
\* always returns to line 185 (only the interrupt can prevent it).  When
\* the reader is unavailable every read is empty: no users query and no
\* insert is ever issued, the loop stays on its polling labels until it
\* is interrupted, and its next polling step is always possible.
C14_ReaderNeverFaults ==
    /\ [][ (pc = "read" /\ pc' # "interrupted") => pc' = "time" ]_vars
    /\ [](ReaderUnavailable =>
            /\ result = None
            /\ calls = << >>
            /\ logs = << >>
            /\ pc \in { "read", "time", "sleep_empty",
                        "interrupted", "finally", "done" }
            /\ (pc \in { "read", "time", "sleep_empty" }
                    /\ now + PollSleep <= MaxTime)
                  => ENABLED (ReadRfidCard \/ TakeTime \/ SleepEmpty))

\* without a reader the loop has polled and slept several times and is
\* about to poll again
C14_Witness ==
    /\ ReaderUnavailable
    /\ pc = "read"
    /\ now >= Boot + 3 * PollSleep
    /\ result = None
    /\ calls = << >>

\* the positions of the users queries of the current iteration
SelectIdx == { i \in DOMAIN calls : calls[i].op = "select" }

\* C15: no retries.  One iteration of the loop issues at most one users
\* query and at most one insert, the insert only after the query has been
\* answered; an empty read and a discarded read issue no call.
C15_NoRetries ==
    /\ Cardinality(SelectIdx) <= 1
    /\ Cardinality(InsertIdx) <= 1
    /\ SelectIdx \subseteq { 1 }
    /\ InsertIdx \subseteq { 2 }
    /\ InsertIdx # {} => QueryAnswered
    /\ pc \in { "time", "sleep_empty", "dedup", "sleep_dup" } => calls = << >>

\* the insert of a scan has failed and the loop is back at its head with
\* one query and one insert issued
C15_Witness ==
    /\ pc = "read"
    /\ Len(calls) = 2
    /\ InsertFailed

C17_NoCallWedgesLoop ==
    pc # "hung"

\* an event of the card of the current read is in the audit log, and the
\* current read was taken less than one cooldown after the start of the
\* loop: that card was accepted less than one cooldown ago
AcceptedWithinCooldown ==
    /\ \E i \in DOMAIN logs : logs[i].eid = eid
    /\ current_time - Boot < CooldownTicks

\* C18: the cooldown keeps one identifier only.  A read of a card that
\* was accepted less than one cooldown ago is sent to scan_and_log all
\* the same when another card has been accepted since.
C18_OnlyLastCardCoolsDown ==
    [][ (/\ pc = "dedup"
         /\ AcceptedWithinCooldown
         /\ eid # last_scanned_eid
         /\ pc' # "interrupted")
         => pc' = "query" ]_vars

\* card A, another card, card A again: the audit log holds two events of
\* A that are less than one cooldown apart
C18_Witness ==
    /\ pc = "update"
    /\ last_scanned_eid # None
    /\ last_scanned_eid # eid
    /\ current_time - Boot < CooldownTicks
    /\ Len(logs) = 2
    /\ logs[1].eid = eid
    /\ logs[2].eid = eid

\* C19: every scan that returns arms the cooldown.  When scan_and_log
\* has returned, whatever its query and its insert did, the next step of
\* the loop stores the identifier and the time of the read; and a read
\* that repeats the stored identifier inside the cooldown goes to the
\* short sleep with no remote call issued.
C19_EveryScanArmsCooldown ==
    /\ [](pc = "sleep_scan" =>
            last_scanned_eid = eid /\ last_scan_time = current_time)
    /\ [][ (pc = "update" /\ pc' # "interrupted") =>
             /\ pc' = "sleep_scan"
             /\ last_scanned_eid' = eid
             /\ last_scan_time' = current_time ]_vars
    /\ [][ (pc = "dedup" /\ InsideCooldown /\ pc' # "interrupted") =>
             pc' = "sleep_dup" /\ calls' = << >> ]_vars

\* a card is discarded inside the cooldown of a scan of which no event
\* was recorded
C19_Witness ==
    /\ pc = "sleep_dup"
    /\ InsideCooldown
    /\ logs = << >>
    /\ calls = << >>

\* C20: balance updates are clamped.  A row either still holds what it
\* held before any update or holds a balance that is not negative; a call
\* changes only rows its key selects and leaves them holding
\* max(0, new_balance); it returns True only if such a row exists; and it
\* returns False with the table as it was when there is no client or the
\* remote call raised.
C20_BalanceUpdatesClamped ==
    /\ [](\A i \in DOMAIN users :
            users[i] = InitUsers[i] \/ users[i].current_balance >= 0)
    /\ [][ \A i \in DOMAIN users : users'[i] # users[i] =>
             /\ last_update'.key \in { users[i].eid, users[i].id }
             /\ users'[i].current_balance =
                   IF last_update'.new_balance.val < 0 THEN 0
                   ELSE last_update'.new_balance.val
             /\ users'[i] = [users[i] EXCEPT !.current_balance =
                                users'[i].current_balance] ]_vars
    /\ [][ last_update'.ret = "True" =>
             \E i \in DOMAIN users :
                /\ last_update'.key \in { users[i].eid, users[i].id }
                /\ users'[i].current_balance =
                      IF last_update'.new_balance.val < 0 THEN 0
                      ELSE last_update'.new_balance.val
           ]_vars
    /\ [][ (supabase = "None" \/ last_update'.outcome = "raise") =>
             users' = users /\ last_update'.ret = "False" ]_vars

\* a negative amount was stored as zero and the call returned True
C20_Witness ==
    /\ last_update.ret = "True"
    /\ last_update.new_balance.val < 0
    /\ \E i \in DOMAIN users :
          users[i].current_balance = 0 /\ users[i] # InitUsers[i]

====
